---------------------------- MODULE Spec2Model ----------------------------
(***************************************************************************)
(* Process lifecycle management of the bundled PocketBase server:          *)
(* isValidPocketbaseProcess, checkRunningPBInstances, startPBServer and    *)
(* startPocketbase (src/unnamed/part_000).                                 *)
(*                                                                         *)
(* The host is one Node.js process: single threaded, every event handler   *)
(* runs to completion and the microtasks it queued (the continuation of an *)
(* awaited promise) run before the next event is dispatched.  An action of *)
(* this module is therefore one synchronous stretch of code: a call up to  *)
(* its first await, or one child event handler followed by the             *)
(* continuation that its resolve()/reject() call woke up.                  *)
(***************************************************************************)
EXTENDS Integers, Sequences, FiniteSets, TLC

\* Process ids the OS hands out are 1..MaxPid; 0 stands for `undefined`.
MaxPid == 2

Pids == 1..MaxPid

(***************************************************************************)
(* Text.  A chunk of child output is a sequence of tokens; the tokens are  *)
(* the literals the code looks for, the two whitespace characters that     *)
(* String.prototype.trim removes, and one token for any other text.        *)
(***************************************************************************)
ErrorMarker == "Error:"

ServerStarted == "Server started"

AddressInUse == "bind: address already in use"

OtherText == "cannot open database"

Whitespace == {" ", "\n"}

RECURSIVE TrimStart(_)
TrimStart(s) ==
    IF s # <<>> /\ Head(s) \in Whitespace THEN TrimStart(Tail(s)) ELSE s

RECURSIVE TrimEnd(_)
TrimEnd(s) ==
    IF s # <<>> /\ s[Len(s)] \in Whitespace
    THEN TrimEnd(SubSeq(s, 1, Len(s) - 1))
    ELSE s

\* A broken trim, which strips the leading whitespace only.
TrimLeadingOnly(s) == TrimStart(s)

\* String.prototype.trim
Trim(s) == TrimEnd(TrimStart(s))

\* String.prototype.startsWith, for a literal that is one token
StartsWith(s, tok) == s # <<>> /\ s[1] = tok

\* String.prototype.includes, for a literal that is one token
Includes(s, tok) == \E i \in 1..Len(s) : s[i] = tok

\* The lines the child may print, without the whitespace around them.
Texts ==
    { <<ErrorMarker, " ", OtherText>>,
      <<ErrorMarker, " ", ServerStarted>>,
      <<ErrorMarker, " ", AddressInUse>>,
      <<ServerStarted>>,
      <<AddressInUse>>,
      <<ServerStarted, "\n", AddressInUse>>,
      <<OtherText>>,
      <<>> }

\* What a 'data' event of stdout may carry: a line and its line break,
\* with or without whitespace before it.
Chunks == { lead \o t \o <<"\n">> : lead \in {<<>>, <<" ">>}, t \in Texts }

\* What a 'data' event of stderr may carry; its handler looks for nothing
\* in the text.
StderrChunks ==
    { lead \o t \o <<"\n">> :
        lead \in {<<>>, <<" ">>},
        t \in {<<ErrorMarker, " ", OtherText>>, <<ServerStarted>>, <<OtherText>>, <<>>} }

\* The exit codes a child may report; -1 stands for `null`, the code of a
\* child that a signal ended.
ExitCodes == {-1, 0, 1, 2}

\* `${code}` in a template literal
CodeText(code) ==
    CASE code = -1 -> "null"
      [] code = 0 -> "0"
      [] code = 1 -> "1"
      [] OTHER -> "2"

(***************************************************************************)
(* State.                                                                  *)
(***************************************************************************)
VARIABLES
    platform,   \* process.platform: "win32" or "posix"
    procs,      \* the OS process table: pid -> kind of process
    host,       \* the host process: [alive, code]
    flow,       \* the caller's position: [mode, pc, pbRunning, ret]
    launch,     \* the promise startPBServer returned: [state, value]
    child,      \* pbProcess: [spawned, ok, pid, exited, errored]
    lastEvent,  \* the child event dispatched last: [kind, data, code]
    tick,       \* flips with every event dispatched
    firstSettle, \* history: the event whose handler was the first to call
                 \* resolve or reject
    call,       \* the call made last since the process table last changed,
                \* and its result: [fn, pid, keyword, exitOnError, os, r];
                \* for a call of executeCommand, [fn, option, res, r]
    sigterm,    \* the processes a termination request has reached and that
                \* the OS has not ended yet
    calls,      \* how often the cleanup closure was called
    modules,    \* the module directories and the module commands: [dirs,
                \* backups, up, inst]
    duo         \* two startPocketbase flows on one host: [f, port]

vars == <<platform, procs, host, flow, launch, child, lastEvent, tick, firstSettle,
          call, sigterm, calls, modules, duo>>

\* What the launch flow leaves alone.
calling == <<call, sigterm, calls>>

\* How often the model calls the cleanup closure at most.
MaxCleanups == 2

\* The kinds of process the probes can tell apart: no process, a
\* `pocketbase serve`, and an unrelated process whose command line
\* contains "pocketbase serve" (its command name does not).
ProcKinds == {"none", "pb", "lookalike"}

NoValue == [kind |-> "none", pid |-> 0, message |-> <<>>]

PidValue(pid) == [kind |-> "pid", pid |-> pid, message |-> <<>>]

\* new Error(message)
ErrorValue(message) == [kind |-> "Error", pid |-> 0, message |-> message]

\* The error object of the child's 'error' event (spawn ENOENT).
SpawnError == [kind |-> "Error", pid |-> 0, message |-> <<"spawn ENOENT">>]

NoEvent == [kind |-> "none", data |-> <<>>, code |-> 0]

NoRet == [kind |-> "none", pid |-> 0]


(***************************************************************************)
(* The host OS, as the probes see it.                                      *)
(***************************************************************************)
\* The decimal text of a small number, and parseInt(text, 10); -1 is NaN.
Digits == <<"0", "1", "2", "3", "4", "5", "6", "7", "8", "9">>

DigitText(n) == Digits[n + 1]

ParseInt(text) ==
    IF \E n \in 0..9 : Digits[n + 1] = text
    THEN CHOOSE n \in 0..9 : Digits[n + 1] = text
    ELSE -1

\* The command name `ps -o comm=` prints for a process, and its image name
\* in a tasklist row.
CommName(kind) == IF kind = "pb" THEN "PocketBase" ELSE "node"

ImageName(kind) == IF kind = "pb" THEN "PocketBase.exe" ELSE "node.exe"

\* A toLowerCase that leaves the case of a name as it is.
ToLowerCaseNoop(name) == name

\* String.prototype.toLowerCase on those names
ToLowerCase(name) ==
    CASE name = "PocketBase" -> "pocketbase"
      [] name = "PocketBase.exe" -> "pocketbase.exe"
      [] OTHER -> name

\* The pids of a set, in increasing order.
RECURSIVE SortedPids(_)
SortedPids(S) ==
    IF S = {} THEN <<>>
    ELSE LET m == CHOOSE x \in S : \A y \in S : x <= y
         IN <<m>> \o SortedPids(S \ {m})

\* One row of `tasklist /fo csv /nh`.
TasklistRow(kind, pid) ==
    <<ImageName(kind), DigitText(pid), "Console", "1", "10,000 K">>

NoTasksLine == <<"INFO: No tasks are running which match the specified criteria.">>

\* tasklist /fi "pid eq <pid>" /fo csv /nh
TasklistByPid(pt, pid) ==
    IF pid \in DOMAIN pt /\ pt[pid] # "none"
    THEN <<TasklistRow(pt[pid], pid)>>
    ELSE <<NoTasksLine>>

\* line.match(/"\d+"/): the first quoted field that is all digits, parsed;
\* NaN when the line has none.
FirstNumberField(line) ==
    LET idx == {i \in 1..Len(line) : ParseInt(line[i]) # -1}
    IN IF idx = {} THEN -1
       ELSE ParseInt(line[CHOOSE i \in idx : \A j \in idx : i <= j])

\* lines.map(f).filter(pid => !isNaN(pid)), f being parseInt or the regexp
RECURSIVE ParsedPids(_, _)
ParsedPids(lines, byRegexp) ==
    IF lines = <<>> THEN <<>>
    ELSE LET n == IF byRegexp THEN FirstNumberField(Head(lines))
                  ELSE ParseInt(Head(lines))
         IN (IF n = -1 THEN <<>> ELSE <<n>>) \o ParsedPids(Tail(lines), byRegexp)

(***************************************************************************)
(* What the OS answers during one call.  listing: how the process listing  *)
(* (pgrep, tasklist by image name) goes: it works, it cannot be run, it    *)
(* prints nothing, or it prints text with no pid in it (tasklist's "no     *)
(* tasks" line in another language); pgrep prints pids or fails.  psOk:    *)
(* the query by pid (ps, tasklist by pid) can be run.  killOk: taskkill    *)
(* and pkill can be run.  signalOk: the host may signal the processes of   *)
(* others (it may always signal the child it spawned).                     *)
(***************************************************************************)
OsAnswers(plat) ==
    { a \in [listing : {"ok", "fails", "empty", "garbage"},
             psOk : BOOLEAN, killOk : BOOLEAN, signalOk : BOOLEAN] :
        plat = "posix" => a.listing \in {"ok", "fails"} }

\* The OS answers that make a difference to a call: a verifier runs no
\* listing and no kill command, a probe no kill command, a kill by pid no
\* listing and no query by pid, a kill by keyword no query by pid.
VerifierAnswers == {a \in OsAnswers(platform) : a.listing = "ok" /\ a.killOk}

ProbeAnswers == {a \in OsAnswers(platform) : a.killOk}

KillPidAnswers == {a \in OsAnswers(platform) : a.listing = "ok" /\ a.psOk}

KillKeywordAnswers == {a \in OsAnswers(platform) : a.psOk}

GarbageLine == <<"INFORMATION: Es werden keine Aufgaben ausgefuehrt.">>

\* What spawnSync gives for a command: [error, status, stdout].
Ran(stdout) == [error |-> FALSE, status |-> 0, stdout |-> stdout]

Failed(status) == [error |-> FALSE, status |-> status, stdout |-> <<>>]

NotRun == [error |-> TRUE, status |-> -1, stdout |-> <<>>]

\* An executeCommand that follows its doc comment: it throws only when
\* exitOnError is false, and ends the host otherwise.
ExecuteCommandExitByDefault(res, exitOnError) ==
    IF res.error \/ res.status # 0
    THEN IF exitOnError = "false"
         THEN [kind |-> "throw", out |-> <<>>]
         ELSE [kind |-> "exit", out |-> <<>>]
    ELSE [kind |-> "return", out |-> res.stdout]

\* executeCommand(command, {exitOnError}); exitOnError is "true", "false"
\* or "undefined" (not given).
ExecuteCommand(res, exitOnError) ==
    IF res.error \/ res.status # 0
    THEN IF exitOnError # "true"               \* !options.exitOnError
         THEN [kind |-> "throw", out |-> <<>>]
         ELSE [kind |-> "exit", out |-> <<>>]
    ELSE [kind |-> "return", out |-> res.stdout]

\* The processes whose command line contains the pattern of a pgrep -f or
\* pkill -f, and those whose image name a tasklist or taskkill filter takes.
CmdlineHits(pt, pattern) ==
    {p \in DOMAIN pt : pt[p] \in {"pb", "lookalike"}
                       /\ pattern \in {"pocketbase serve", "pocketbase"}}

ImageHits(pt, keyword) ==
    {p \in DOMAIN pt : pt[p] = "pb" /\ keyword = "pocketbase"}

\* pgrep -f "<pattern>"
RunPgrep(pt, pattern, a) ==
    IF a.listing # "ok" THEN NotRun
    ELSE LET hits == CmdlineHits(pt, pattern)
         IN IF hits = {} THEN Failed(1)
            ELSE Ran([i \in 1..Cardinality(hits) |-> DigitText(SortedPids(hits)[i])])

\* tasklist /fi "imagename eq <keyword>.exe" /fo csv /nh
RunTasklistByImage(pt, keyword, a) ==
    CASE a.listing = "fails" -> NotRun
      [] a.listing = "empty" -> Ran(<<>>)
      [] a.listing = "garbage" -> Ran(<<GarbageLine>>)
      [] OTHER ->
           LET hits == ImageHits(pt, keyword)
           IN IF hits = {} THEN Ran(<<NoTasksLine>>)
              ELSE Ran([i \in 1..Cardinality(hits) |->
                          TasklistRow("pb", SortedPids(hits)[i])])

\* ps -p <pid> -o comm=, and tasklist /fi "pid eq <pid>" /fo csv /nh
RunPs(pt, pid, a) ==
    IF ~a.psOk THEN NotRun
    ELSE IF pt[pid] = "none" THEN Failed(1)
    ELSE Ran(<<CommName(pt[pid])>>)

RunTasklistByPid(pt, pid, a) ==
    IF ~a.psOk THEN NotRun ELSE Ran(TasklistByPid(pt, pid))

\* process.kill(pid, signal) goes through: the process exists and the host
\* may signal it.  It throws otherwise.
CanSignal(pt, pid, a) ==
    /\ pid \in DOMAIN pt /\ pt[pid] # "none"
    /\ a.signalOk \/ (child.ok /\ ~child.exited /\ pid = child.pid)

\* taskkill /F /PID <pid>, taskkill /F /IM <keyword>.exe, pkill -f "<keyword>":
\* [res, reached], reached being the processes the termination request reached.
RunTaskkillPid(pt, pid, a) ==
    IF ~a.killOk THEN [res |-> NotRun, reached |-> {}]
    ELSE IF CanSignal(pt, pid, a) THEN [res |-> Ran(<<"SUCCESS">>), reached |-> {pid}]
    ELSE [res |-> Failed(128), reached |-> {}]

RunTaskkillImage(pt, keyword, a) ==
    LET hits == {p \in ImageHits(pt, keyword) : CanSignal(pt, p, a)}
    IN IF ~a.killOk THEN [res |-> NotRun, reached |-> {}]
       ELSE IF hits # {} THEN [res |-> Ran(<<"SUCCESS">>), reached |-> hits]
       ELSE [res |-> Failed(128), reached |-> {}]

RunPkill(pt, keyword, a) ==
    LET hits == {p \in CmdlineHits(pt, keyword) : CanSignal(pt, p, a)}
    IN IF ~a.killOk THEN [res |-> NotRun, reached |-> {}]
       ELSE IF hits # {} THEN [res |-> Ran(<<>>), reached |-> hits]
       ELSE [res |-> Failed(1), reached |-> {}]

(***************************************************************************)
(* The result of a call: its return value, whether it threw to its caller, *)
(* whether it called process.exit(1), the commands it ran, and the         *)
(* processes its termination requests reached.                             *)
(***************************************************************************)
Returned(ret, cmds) ==
    [ret |-> ret, threw |-> FALSE, exits |-> FALSE, cmds |-> cmds, reached |-> {}]

Threw(cmds) ==
    [ret |-> FALSE, threw |-> TRUE, exits |-> FALSE, cmds |-> cmds, reached |-> {}]

Exited(cmds) ==
    [ret |-> FALSE, threw |-> FALSE, exits |-> TRUE, cmds |-> cmds, reached |-> {}]

NoCall ==
    [fn |-> "none", pid |-> 0, keyword |-> "", exitOnError |-> FALSE,
     os |-> [listing |-> "ok", psOk |-> TRUE, killOk |-> TRUE, signalOk |-> TRUE],
     r |-> Returned(FALSE, <<>>),
     option |-> "undefined", res |-> Ran(<<>>)]

\* try { ... } catch { }: what the body threw is swallowed, and the code
\* after the block returns `fallback`.
Swallow(r, fallback) ==
    IF r.threw THEN [r EXCEPT !.threw = FALSE, !.ret = fallback] ELSE r

\* What a call does after an executeCommand that did not return.
Aborted(x, cmds) == IF x.kind = "exit" THEN Exited(cmds) ELSE Threw(cmds)

(***************************************************************************)
(* isValidPocketbaseProcess(pid)                                           *)
(***************************************************************************)
\* A name test that takes any name.
IncludesAnything(name) == TRUE

\* name.includes('pocketbase')
IncludesPocketbase(name) == name \in {"pocketbase", "pocketbase.exe"}

\* name.includes('pocketbase.exe')
IncludesPocketbaseExe(name) == name = "pocketbase.exe"

\* The body of the try block.
IsValidBody(pt, plat, pid, a) ==
    IF ~CanSignal(pt, pid, a)
    THEN Threw(<<>>)                               \* process.kill(pid, 0)
    ELSE IF plat = "win32"
    THEN LET x == ExecuteCommand(RunTasklistByPid(pt, pid, a), "false")
         IN IF x.kind # "return" THEN Aborted(x, <<"tasklist">>)
            ELSE Returned(\E i \in 1..Len(x.out) : \E j \in 1..Len(x.out[i]) :
                              IncludesPocketbaseExe(ToLowerCase(x.out[i][j])),
                          <<"tasklist">>)
    ELSE LET x == ExecuteCommand(RunPs(pt, pid, a), "false")
         IN IF x.kind # "return" THEN Aborted(x, <<"ps">>)
            ELSE Returned(\E i \in 1..Len(x.out) :
                              IncludesPocketbase(ToLowerCase(x.out[i])),
                          <<"ps">>)

\* A verifier without its try block.
IsValidUnguarded(pt, plat, pid, a) == IsValidBody(pt, plat, pid, a)

IsValidPocketbaseProcess(pt, plat, pid, a) ==
    Swallow(IsValidBody(pt, plat, pid, a), FALSE)

(***************************************************************************)
(* checkRunningPBInstances(exitOnError)                                    *)
(***************************************************************************)
\* A filter that trusts every pid of the listing.
ValidPidsUnverified(pt, plat, pids, a) == pids

\* pids.filter(isValidPocketbaseProcess)
ValidPids(pt, plat, pids, a) ==
    SelectSeq(pids, LAMBDA p : IsValidPocketbaseProcess(pt, plat, p, a).ret)

\* The commands the verifier ran for the pids of a listing.
RECURSIVE VerifierCmds(_, _, _, _)
VerifierCmds(pt, plat, pids, a) ==
    IF pids = <<>> THEN <<>>
    ELSE IsValidPocketbaseProcess(pt, plat, Head(pids), a).cmds
            \o VerifierCmds(pt, plat, Tail(pids), a)

\* A probe that exits whenever it finds an instance.
ExitsWhenFoundAlways(exitOnError) == TRUE

\* `if (exitOnError) { ...; process.exit(1) }` once an instance was found
ExitsWhenFound(exitOnError) == exitOnError

\* The body of the try block.
CheckRunningBody(pt, plat, exitOnError, a) ==
    IF plat = "win32"
    THEN LET x == ExecuteCommand(RunTasklistByImage(pt, "pocketbase", a), "false")
             pids == ParsedPids(x.out, TRUE)
         IN IF x.kind # "return" THEN Aborted(x, <<"tasklist">>)
            ELSE IF x.out = <<>> \/ x.out = <<NoTasksLine>> \/ pids = <<>>
            THEN Returned(FALSE, <<"tasklist">>)
            ELSE IF ExitsWhenFound(exitOnError) THEN Exited(<<"tasklist">>)
            ELSE Returned(TRUE, <<"tasklist">>)
    ELSE LET x == ExecuteCommand(RunPgrep(pt, "pocketbase serve", a), "false")
             pids == ParsedPids(x.out, FALSE)
             validPids == ValidPids(pt, plat, pids, a)
             cmds == <<"pgrep">> \o VerifierCmds(pt, plat, pids, a)
         IN IF x.kind # "return" THEN Aborted(x, <<"pgrep">>)
            ELSE IF x.out = <<>> THEN Returned(FALSE, <<"pgrep">>)
            ELSE IF validPids = <<>> THEN Returned(FALSE, cmds)
            ELSE IF ExitsWhenFound(exitOnError) THEN Exited(cmds)
            ELSE Returned(TRUE, cmds)

\* A probe without its try block.
CheckRunningUnguarded(pt, plat, exitOnError, a) ==
    CheckRunningBody(pt, plat, exitOnError, a)

CheckRunningPBInstances(pt, plat, exitOnError, a) ==
    Swallow(CheckRunningBody(pt, plat, exitOnError, a), FALSE)

(***************************************************************************)
(* killExistingProcess(processKeywordOrPID).  target: [kind, pid, keyword] *)
(* with kind "pid" or "keyword"; the value returned is a pid, -1 for NaN,  *)
(* or 0 for undefined.                                                     *)
(***************************************************************************)
PidTarget(pid) == [kind |-> "pid", pid |-> pid, keyword |-> ""]

KeywordTarget(keyword) == [kind |-> "keyword", pid |-> 0, keyword |-> keyword]

KillReturned(ret, cmds, reached) ==
    [ret |-> ret, threw |-> FALSE, exits |-> FALSE, cmds |-> cmds, reached |-> reached]

\* What killExistingProcess does after an executeCommand that did not return.
KillAborted(x, cmds) ==
    [ret |-> 0, threw |-> x.kind # "exit", exits |-> x.kind = "exit",
     cmds |-> cmds, reached |-> {}]

\* A parseInt that takes the last line of the listing.
LastPid(lines) == ParseInt(lines[Len(lines)])

\* parseInt(serverInstance, 10): the number the text begins with
FirstPid(lines) == ParseInt(lines[1])

\* The body of the try block.
KillBody(pt, plat, target, a) ==
    IF target.kind = "pid"
    THEN IF plat = "win32"
         THEN LET k == RunTaskkillPid(pt, target.pid, a)
                  x == ExecuteCommand(k.res, "false")
              IN IF x.kind # "return" THEN KillAborted(x, <<"taskkill">>)
                 ELSE KillReturned(0, <<"taskkill">>, k.reached)
         ELSE IF CanSignal(pt, target.pid, a)
              THEN KillReturned(0, <<>>, {target.pid})     \* process.kill(pid)
              ELSE KillAborted([kind |-> "throw"], <<>>)
    ELSE IF plat = "win32"
    THEN LET x == ExecuteCommand(RunTasklistByImage(pt, target.keyword, a), "false")
             k == RunTaskkillImage(pt, target.keyword, a)
             y == ExecuteCommand(k.res, "false")
         IN IF x.kind # "return" THEN KillAborted(x, <<"tasklist">>)
            ELSE IF x.out = <<>> \/ x.out = <<NoTasksLine>>
            THEN KillReturned(0, <<"tasklist">>, {})
            ELSE IF y.kind # "return" THEN KillAborted(y, <<"tasklist", "taskkill">>)
            ELSE KillReturned(0, <<"tasklist", "taskkill">>, k.reached)
    ELSE LET x == ExecuteCommand(RunPgrep(pt, target.keyword, a), "false")
             k == RunPkill(pt, target.keyword, a)
             y == ExecuteCommand(k.res, "undefined")
         IN IF x.kind # "return" THEN KillAborted(x, <<"pgrep">>)
            ELSE IF x.out = <<>> THEN KillReturned(0, <<"pgrep">>, {})
            ELSE IF y.kind # "return" THEN KillAborted(y, <<"pgrep", "pkill">>)
            ELSE KillReturned(FirstPid(x.out), <<"pgrep", "pkill">>, k.reached)

\* A terminator without its try block.
KillExistingProcessUnguarded(pt, plat, target, a) == KillBody(pt, plat, target, a)

\* A terminator that asks the OS for nothing.
KillExistingProcessNoKill(pt, plat, target, a) == KillReturned(0, <<>>, {})

KillExistingProcess(pt, plat, target, a) ==
    LET r == KillBody(pt, plat, target, a)
    IN IF r.threw THEN KillReturned(0, r.cmds, {}) ELSE r

\* A promise that a timer has rejected by the time the caller awaits it.
TimedOut == [state |-> "rejected", value |-> ErrorValue(<<"timeout">>)]

(***************************************************************************)
(* The promise of startPBServer.  resolve and reject settle a pending      *)
(* promise and do nothing to a settled one.                                *)
(***************************************************************************)
Pending == [state |-> "pending", value |-> NoValue]

\* A resolve that overwrites whatever the promise holds.
ResolveAlways(p, v) == [state |-> "resolved", value |-> v]

Resolve(p, v) ==
    IF p.state = "pending" THEN [state |-> "resolved", value |-> v] ELSE p

\* A reject that overwrites whatever the promise holds.
RejectAlways(p, e) == [state |-> "rejected", value |-> e]

Reject(p, e) ==
    IF p.state = "pending" THEN [state |-> "rejected", value |-> e] ELSE p

\* process.exit(code)
ProcessExit(h, code) == IF h.alive THEN [alive |-> FALSE, code |-> code] ELSE h

(***************************************************************************)
(* The four listeners of startPBServer.  Each gives the promise and the    *)
(* host as the handler leaves them, and `called`: whether it called        *)
(* resolve or reject.                                                      *)
(***************************************************************************)
\* pbProcess.stdout.on('data', ...)
OnStdoutData(p, h, pid, output) ==
    IF StartsWith(output, ErrorMarker)
    THEN [launch |-> Reject(p, ErrorValue(Trim(output))), host |-> h, called |-> TRUE]
    ELSE [launch |-> IF Includes(output, ServerStarted)
                     THEN Resolve(p, PidValue(pid))
                     ELSE p,
          host |-> IF Includes(output, AddressInUse) THEN ProcessExit(h, 1) ELSE h,
          called |-> Includes(output, ServerStarted)]

\* A stderr handler that reads the text the way the stdout handler does.
OnStderrDataLikeStdout(p, h, data) == OnStdoutData(p, h, child.pid, data)

\* pbProcess.stderr.on('data', ...)
OnStderrData(p, h, data) ==
    [launch |-> Reject(p, ErrorValue(Trim(data))), host |-> h, called |-> TRUE]

\* pbProcess.on('error', ...)
OnError(p, h, error) ==
    [launch |-> Reject(p, error), host |-> h, called |-> TRUE]

\* An exit handler that takes only code 1 for a failure.
OnExitCodeOneOnly(p, h, code) ==
    IF code = 1
    THEN [launch |-> Reject(p, ErrorValue(<<"PocketBase process exited with code ",
                                            CodeText(code)>>)),
          host |-> h, called |-> TRUE]
    ELSE [launch |-> p, host |-> h, called |-> FALSE]

\* pbProcess.on('exit', ...)
OnExit(p, h, code) ==
    IF code # 0
    THEN [launch |-> Reject(p, ErrorValue(<<"PocketBase process exited with code ",
                                            CodeText(code)>>)),
          host |-> h, called |-> TRUE]
    ELSE [launch |-> p, host |-> h, called |-> FALSE]

(***************************************************************************)
(* The continuation of `await startPBServer()`.  It runs as a microtask    *)
(* once the handler that settled the promise has returned, unless that     *)
(* handler ended the host.  before/after: the promise around the handler.  *)
(***************************************************************************)
\* A startPocketbase without its catch block: the rejection reaches the caller.
AwaitInStartPocketbaseRethrow(f, h, before, after) ==
    IF ~(f.pc = "awaiting" /\ before.state = "pending" /\ h.alive)
    THEN [flow |-> f, host |-> h]
    ELSE CASE after.state = "resolved" ->
                [flow |-> [f EXCEPT !.pc = "returned",
                                    !.ret = [kind |-> "cleanup", pid |-> after.value.pid]],
                 host |-> h]
           [] after.state = "rejected" ->
                [flow |-> [f EXCEPT !.pc = "threw"], host |-> h]
           [] OTHER -> [flow |-> f, host |-> h]

\* in startPocketbase: return the cleanup closure, or the catch block
AwaitInStartPocketbase(f, h, before, after) ==
    IF ~(f.pc = "awaiting" /\ before.state = "pending" /\ h.alive)
    THEN [flow |-> f, host |-> h]
    ELSE CASE after.state = "resolved" ->
                [flow |-> [f EXCEPT !.pc = "returned",
                                    !.ret = [kind |-> "cleanup", pid |-> after.value.pid]],
                 host |-> h]
           [] after.state = "rejected" ->
                [flow |-> [f EXCEPT !.pc = "exiting"], host |-> ProcessExit(h, 1)]
           [] OTHER -> [flow |-> f, host |-> h]

\* in a caller that awaits startPBServer() itself
AwaitInCaller(f, h, before, after) ==
    IF ~(f.pc = "awaiting" /\ before.state = "pending" /\ h.alive)
    THEN [flow |-> f, host |-> h]
    ELSE CASE after.state = "resolved" ->
                [flow |-> [f EXCEPT !.pc = "returned",
                                    !.ret = [kind |-> "pid", pid |-> after.value.pid]],
                 host |-> h]
           [] after.state = "rejected" ->
                [flow |-> [f EXCEPT !.pc = "threw"], host |-> h]
           [] OTHER -> [flow |-> f, host |-> h]

Continue(f, h, before, after) ==
    IF f.mode = "startPocketbase"
    THEN AwaitInStartPocketbase(f, h, before, after)
    ELSE AwaitInCaller(f, h, before, after)

(***************************************************************************)
(* The module directories.  A full name is the sequence of its parts; the  *)
(* content of a directory is "none" (no directory), "old" (an installed    *)
(* version older than the registry's latest), "new" (the latest) or, for a *)
(* backup, "stale" (left by an earlier run).                               *)
(***************************************************************************)
\* How many names a call of installModuleHandler is given at most.
MaxNames == 2

Calendar == <<"@lifeforge/", "acme", "--", "calendar">>

Notes == <<"@lifeforge/", "acme", "--", "notes">>

NoSeparator == <<"@lifeforge/", "calendar">>

FullNames == {Calendar, Notes, NoSeparator}

\* [a-z0-9-_]+ with the flag i
IsWord(part) == part \in {"acme", "calendar", "notes"}

\* A test that takes every name.
AnyFullName(fullName) == TRUE

\* /^@lifeforge\/[a-z0-9-_]+--[a-z0-9-_]+$/i.test(fullName)
IsValidFullName(fullName) ==
    /\ Len(fullName) = 4
    /\ fullName[1] = "@lifeforge/"
    /\ IsWord(fullName[2])
    /\ fullName[3] = "--"
    /\ IsWord(fullName[4])

\* Where installPackage may fail: the registry gives no tarball url, curl
\* or tar fails, the tarball has no `package` directory, `bun install`
\* ends with status 1 or with another status.
InstallFaults == {"none", "tarball", "curl", "tar", "extract", "bun1", "bun"}

\* Where upgradeModule may fail besides: the registry gives no latest
\* version, the copy to the backup fails.
UpgradeFaults == InstallFaults \cup {"registry", "copy"}

\* bunInstall(): a status of 1 is taken for success, anything else is thrown.
BunInstall(res) ==
    LET x == ExecuteCommand(res, "undefined")
    IN IF x.kind = "throw" /\ ~res.error /\ res.status = 1 THEN "return" ELSE x.kind

\* installPackage(fullName, targetDir): [dir, kind], dir being the content
\* of targetDir afterwards and kind "return", "throw" or "exit".
InstallPackage(dir, fault) ==
    CASE fault = "tarball" -> [dir |-> "none", kind |-> "exit"]
      [] fault = "curl" -> [dir |-> "none", kind |-> ExecuteCommand(NotRun, "undefined").kind]
      [] fault = "tar" -> [dir |-> "none", kind |-> ExecuteCommand(Failed(2), "undefined").kind]
      [] fault = "extract" -> [dir |-> "none", kind |-> "exit"]
      [] fault = "bun1" -> [dir |-> "new", kind |-> BunInstall(Failed(1))]
      [] fault = "bun" -> [dir |-> "new", kind |-> BunInstall(Failed(2))]
      [] OTHER -> [dir |-> "new", kind |-> "return"]

\* fs.renameSync(from, to) throws when `to` is a directory with content.
RenameThrows(to) == to # "none"

\* upgradeModule(packageName, currentVersion), the version being that of
\* the directory: [dir, backup, outcome], outcome "true", "false", "threw"
\* (the promise is rejected) or "exit".
UpgradeModuleBody(dir, backup, fault) ==
    IF fault = "registry" \/ dir = "new"
    THEN [dir |-> dir, backup |-> backup, outcome |-> "false"]
    ELSE IF fault = "copy" \/ dir = "none"
    THEN [dir |-> dir, backup |-> "none", outcome |-> "false"]
    ELSE LET ip == InstallPackage("none", fault)
         IN CASE ip.kind = "exit" ->
                   [dir |-> ip.dir, backup |-> dir, outcome |-> "exit"]
              [] ip.kind = "throw" ->
                   IF RenameThrows(ip.dir)
                   THEN [dir |-> ip.dir, backup |-> dir, outcome |-> "threw"]
                   ELSE [dir |-> dir, backup |-> "none", outcome |-> "false"]
              [] OTHER ->
                   [dir |-> ip.dir, backup |-> "none", outcome |-> "true"]

NoUp == [name |-> <<>>, fault |-> "none", pre |-> "none", outcome |-> "none"]

NoInst == [pc |-> "idle", names |-> <<>>, i |-> 1, installed |-> <<>>,
           log |-> <<>>, regen |-> FALSE]

NoModules ==
    [dirs |-> [n \in FullNames |-> "none"], backups |-> [n \in FullNames |-> "none"],
     up |-> NoUp, inst |-> NoInst]

(***************************************************************************)
(* Two flows of startPocketbase on one host.  Each has its position, its   *)
(* promise and its child; a child is "unbound" until it asks for the port, *)
(* and then "bound" or "refused".  port: the pid that holds the port, 0    *)
(* when it is free.  overlap: a flow was called while the other was       *)
(* suspended on its launch.                                                *)
(***************************************************************************)
Flows == {1, 2}

NoFlow ==
    [flow |-> [mode |-> "none", pc |-> "idle", pbRunning |-> FALSE, ret |-> NoRet],
     launch |-> [state |-> "none", value |-> NoValue],
     child |-> [spawned |-> FALSE, ok |-> FALSE, pid |-> 0, exited |-> FALSE,
                errored |-> FALSE],
     bind |-> "unbound", heard |-> FALSE]

NoDuo == [f |-> [i \in Flows |-> NoFlow], port |-> 0, overlap |-> FALSE]

(***************************************************************************)
(* Initial state: some process table, nothing called yet.                  *)
(***************************************************************************)
Init ==
    /\ platform \in {"win32", "posix"}
    /\ procs \in [Pids -> ProcKinds]
    /\ host = [alive |-> TRUE, code |-> 0]
    /\ flow = [mode |-> "none", pc |-> "idle", pbRunning |-> FALSE, ret |-> NoRet]
    /\ launch = [state |-> "none", value |-> NoValue]
    /\ child = [spawned |-> FALSE, ok |-> FALSE, pid |-> 0,
                exited |-> FALSE, errored |-> FALSE]
    /\ lastEvent = NoEvent
    /\ tick = FALSE
    /\ firstSettle = NoEvent
    /\ call = NoCall
    /\ sigterm = {}
    /\ calls = 0
    /\ modules = NoModules
    /\ duo = NoDuo

\* spawn(PB_BINARY_PATH, ['serve', ...]) inside the promise executor: the
\* OS gives the child a free pid, or the spawn fails and the child has none.
Spawn(ok, pid) ==
    /\ IF ok
       THEN /\ pid \in Pids
            /\ procs[pid] = "none"
            /\ procs' = [procs EXCEPT ![pid] = "pb"]
            /\ child' = [spawned |-> TRUE, ok |-> TRUE, pid |-> pid,
                         exited |-> FALSE, errored |-> FALSE]
       ELSE /\ pid = 0
            /\ procs' = procs
            /\ child' = [spawned |-> TRUE, ok |-> FALSE, pid |-> 0,
                         exited |-> FALSE, errored |-> FALSE]
    /\ launch' = Pending

\* A caller calls startPBServer() and awaits it.
StartPBServer ==
    /\ host.alive
    /\ flow.pc = "idle"
    /\ \E ok \in BOOLEAN, pid \in Pids \cup {0} : Spawn(ok, pid)
    /\ flow' = [mode |-> "startPBServer", pc |-> "awaiting", pbRunning |-> FALSE,
                ret |-> NoRet]
    /\ call' = NoCall
    /\ UNCHANGED <<platform, modules, duo, host, lastEvent, tick, firstSettle, sigterm, calls>>

\* A startPocketbase that goes on to the launcher whatever the probe said.
LaunchesAlways(pbRunning) == TRUE

\* `if (pbRunning) return null`: whether startPocketbase goes on to the launcher
Launches(pbRunning) == ~pbRunning

\* A caller calls startPocketbase(): the probe, then either `return null`
\* or startPBServer() up to the await.
StartPocketbase ==
    /\ host.alive
    /\ flow.pc = "idle"
    /\ \E a \in ProbeAnswers :
         LET probe == CheckRunningPBInstances(procs, platform, FALSE, a)
         IN IF ~Launches(probe.ret)
            THEN /\ flow' = [mode |-> "startPocketbase", pc |-> "returned",
                             pbRunning |-> probe.ret,
                             ret |-> [kind |-> "null", pid |-> 0]]
                 /\ host' = IF probe.exits THEN ProcessExit(host, 1) ELSE host
                 /\ UNCHANGED <<procs, child, launch>>
            ELSE /\ \E ok \in BOOLEAN, pid \in Pids \cup {0} : Spawn(ok, pid)
                 /\ flow' = [mode |-> "startPocketbase", pc |-> "awaiting",
                             pbRunning |-> probe.ret, ret |-> NoRet]
                 /\ host' = IF probe.exits THEN ProcessExit(host, 1) ELSE host
    /\ call' = NoCall
    /\ UNCHANGED <<platform, modules, duo, lastEvent, tick, firstSettle, sigterm, calls>>

\* What every child event does once its handler h has run: the awaiting
\* caller continues, and the event is recorded.
Dispatch(ev, r) ==
    LET c == Continue(flow, r.host, launch, r.launch)
    IN /\ launch' = r.launch
       /\ flow' = c.flow
       /\ host' = c.host
       /\ lastEvent' = ev
       /\ tick' = ~tick
       /\ firstSettle' = IF firstSettle = NoEvent /\ r.called THEN ev ELSE firstSettle

\* The child writes a chunk to its standard output.
StdoutData ==
    /\ host.alive /\ child.ok
    /\ \E output \in Chunks :
         Dispatch([kind |-> "stdout", data |-> output, code |-> 0],
                  OnStdoutData(launch, host, child.pid, output))
    /\ UNCHANGED <<platform, modules, duo, procs, child, calling>>

\* The child writes a chunk to its standard error.
StderrData ==
    /\ host.alive /\ child.ok
    /\ \E data \in StderrChunks :
         Dispatch([kind |-> "stderr", data |-> data, code |-> 0],
                  OnStderrData(launch, host, data))
    /\ UNCHANGED <<platform, modules, duo, procs, child, calling>>

\* The spawn failed: the child emits 'error'.
ChildError ==
    /\ host.alive /\ child.spawned /\ ~child.ok /\ ~child.errored
    /\ Dispatch([kind |-> "error", data |-> SpawnError.message, code |-> 0],
                OnError(launch, host, SpawnError))
    /\ child' = [child EXCEPT !.errored = TRUE]
    /\ UNCHANGED <<platform, modules, duo, procs, calling>>

\* The child ends: it leaves the process table and emits 'exit'.
ChildExit ==
    /\ host.alive /\ child.ok /\ ~child.exited
    /\ \E code \in ExitCodes :
         Dispatch([kind |-> "exit", data |-> <<>>, code |-> code],
                  OnExit(launch, host, code))
    /\ child' = [child EXCEPT !.exited = TRUE]
    /\ procs' = [procs EXCEPT ![child.pid] = "none"]
    /\ call' = NoCall
    /\ UNCHANGED <<platform, modules, duo, sigterm, calls>>

Next ==
    \/ StartPBServer
    \/ StartPocketbase
    \/ StdoutData
    \/ StderrData
    \/ ChildError
    \/ ChildExit

Spec == Init /\ [][Next]_vars

\* The 'error' event of a spawn that failed is always delivered: Node emits
\* it on the next tick.  Nothing makes a child print or exit.
EventFairSpec == Spec /\ WF_vars(ChildError)

(***************************************************************************)
(* Direct calls of the probes and of the terminator, and the OS ending the *)
(* processes a termination request reached.                                *)
(***************************************************************************)
Keywords == {"pocketbase", "nomatch"}

\* What a call leaves behind: its record, a host that process.exit ended,
\* the termination requests it made.
Called(fn, pid, keyword, exitOnError, a, r) ==
    /\ call' = [NoCall EXCEPT !.fn = fn, !.pid = pid, !.keyword = keyword,
                               !.exitOnError = exitOnError, !.os = a, !.r = r]
    /\ host' = IF r.exits THEN ProcessExit(host, 1) ELSE host
    /\ sigterm' = sigterm \cup r.reached
    /\ UNCHANGED <<platform, modules, duo, procs, flow, launch, child, lastEvent, tick, firstSettle>>

\* isValidPocketbaseProcess(pid)
CallIsValid ==
    /\ host.alive
    /\ \E pid \in Pids, a \in VerifierAnswers :
         Called("isValid", pid, "", FALSE, a,
                IsValidPocketbaseProcess(procs, platform, pid, a))
    /\ UNCHANGED calls

\* checkRunningPBInstances(exitOnError)
CallCheckRunning ==
    /\ host.alive
    /\ \E exitOnError \in BOOLEAN, a \in ProbeAnswers :
         Called("checkRunning", 0, "", exitOnError, a,
                CheckRunningPBInstances(procs, platform, exitOnError, a))
    /\ UNCHANGED calls

\* killExistingProcess(pid), killExistingProcess(keyword)
CallKill ==
    /\ host.alive
    /\ \/ \E pid \in Pids, a \in KillPidAnswers :
              Called("kill", pid, "", FALSE, a,
                     KillExistingProcess(procs, platform, PidTarget(pid), a))
       \/ \E keyword \in Keywords, a \in KillKeywordAnswers :
              Called("kill", 0, keyword, FALSE, a,
                     KillExistingProcess(procs, platform, KeywordTarget(keyword), a))
    /\ UNCHANGED calls

\* The closure startPocketbase returned: () => { killExistingProcess(pbPid) }
Cleanup ==
    /\ host.alive
    /\ flow.ret.kind = "cleanup"
    /\ calls < MaxCleanups
    /\ \E a \in KillPidAnswers :
         Called("cleanup", flow.ret.pid, "", FALSE, a,
                KillExistingProcess(procs, platform, PidTarget(flow.ret.pid), a))
    /\ calls' = calls + 1

\* The OS ends a process that a termination request reached; the child of
\* the host emits 'exit' with a null code.
OsTerminate ==
    \E p \in sigterm :
      /\ procs[p] # "none"
      /\ procs' = [procs EXCEPT ![p] = "none"]
      /\ sigterm' = sigterm \ {p}
      /\ IF child.ok /\ ~child.exited /\ child.pid = p
         THEN /\ child' = [child EXCEPT !.exited = TRUE]
              /\ IF host.alive
                 THEN Dispatch([kind |-> "exit", data |-> <<>>, code |-> -1],
                               OnExit(launch, host, -1))
                 ELSE UNCHANGED <<host, flow, launch, lastEvent, tick, firstSettle>>
         ELSE UNCHANGED <<child, host, flow, launch, lastEvent, tick, firstSettle>>
      /\ call' = NoCall
      /\ UNCHANGED <<platform, modules, duo, calls>>

CallNext ==
    \/ CallIsValid
    \/ CallCheckRunning
    \/ CallKill
    \/ OsTerminate

\* Any process table, and any sequence of direct calls.
CallSpec == Init /\ [][CallNext]_vars

(***************************************************************************)
(* The life of one server on a host where other processes start: the OS    *)
(* gives a free pid, that of a child that has gone included, to a process  *)
(* that has nothing to do with the server.                                 *)
(***************************************************************************)
OsStartsProcess ==
    /\ \E p \in Pids :
         /\ procs[p] = "none"
         /\ procs' = [procs EXCEPT ![p] = "lookalike"]
         /\ sigterm' = sigterm \ {p}
    /\ call' = NoCall
    /\ UNCHANGED <<platform, modules, duo, host, flow, launch, child, lastEvent, tick,
                   firstSettle, calls>>

(***************************************************************************)
(* Two flows of startPocketbase on one host and one port.  The host runs   *)
(* one handler at a time, so the probe and the spawn of a flow are one     *)
(* step.  A child asks for the port once; the OS gives it to the first and *)
(* refuses the others, and a refused child reports the conflict and exits  *)
(* with code 1.                                                            *)
(***************************************************************************)
\* What the two flows leave alone.
single == <<platform, flow, launch, child, lastEvent, tick, firstSettle,
            call, sigterm, calls, modules>>

\* No server runs at the start, and the port is free.
DuoInit ==
    /\ platform \in {"win32", "posix"}
    /\ procs = [p \in Pids |-> "none"]
    /\ host = [alive |-> TRUE, code |-> 0]
    /\ flow = [mode |-> "none", pc |-> "idle", pbRunning |-> FALSE, ret |-> NoRet]
    /\ launch = [state |-> "none", value |-> NoValue]
    /\ child = [spawned |-> FALSE, ok |-> FALSE, pid |-> 0,
                exited |-> FALSE, errored |-> FALSE]
    /\ lastEvent = NoEvent
    /\ tick = FALSE
    /\ firstSettle = NoEvent
    /\ call = NoCall
    /\ sigterm = {}
    /\ calls = 0
    /\ modules = NoModules
    /\ duo = NoDuo

\* The probe answers of a host that may signal the processes it lists.
DuoProbeAnswers == {a \in ProbeAnswers : a.signalOk}

\* Flow i calls startPocketbase(): the probe, then `return null` or
\* startPBServer() up to the await.
DuoStartPocketbase(i) ==
    /\ host.alive
    /\ duo.f[i].flow.pc = "idle"
    /\ \E a \in DuoProbeAnswers, ok \in BOOLEAN, pid \in Pids \cup {0} :
         LET probe == CheckRunningPBInstances(procs, platform, FALSE, a)
             started == [mode |-> "startPocketbase", pc |-> "awaiting",
                         pbRunning |-> probe.ret, ret |-> NoRet]
             overlap == duo.overlap \/ \E j \in Flows \ {i} :
                                         duo.f[j].flow.pc = "awaiting"
         IN IF ~Launches(probe.ret)
            THEN /\ ok /\ pid = 0
                 /\ duo' = [duo EXCEPT
                              !.overlap = overlap,
                              !.f[i].flow =
                                 [mode |-> "startPocketbase", pc |-> "returned",
                                  pbRunning |-> probe.ret,
                                  ret |-> [kind |-> "null", pid |-> 0]]]
                 /\ procs' = procs
            ELSE IF ok
            THEN /\ pid \in Pids
                 /\ procs[pid] = "none"
                 /\ procs' = [procs EXCEPT ![pid] = "pb"]
                 /\ duo' = [duo EXCEPT
                              !.overlap = overlap,
                              !.f[i].flow = started,
                              !.f[i].launch = Pending,
                              !.f[i].child = [spawned |-> TRUE, ok |-> TRUE, pid |-> pid,
                                              exited |-> FALSE, errored |-> FALSE]]
            ELSE /\ pid = 0
                 /\ procs' = procs
                 /\ duo' = [duo EXCEPT
                              !.overlap = overlap,
                              !.f[i].flow = started,
                              !.f[i].launch = Pending,
                              !.f[i].child = [spawned |-> TRUE, ok |-> FALSE, pid |-> 0,
                                              exited |-> FALSE, errored |-> FALSE]]
    /\ UNCHANGED <<host, single>>

\* The child of flow i asks the OS for the port.
DuoBind(i) ==
    /\ duo.f[i].child.ok /\ ~duo.f[i].child.exited
    /\ duo.f[i].bind = "unbound"
    /\ duo' = IF duo.port = 0
              THEN [duo EXCEPT !.f[i].bind = "bound", !.port = duo.f[i].child.pid]
              ELSE [duo EXCEPT !.f[i].bind = "refused"]
    /\ UNCHANGED <<procs, host, single>>

\* What a child event of flow i does once its handler has run.
DuoDispatch(i, r, d) ==
    LET c == Continue(d.f[i].flow, r.host, d.f[i].launch, r.launch)
    IN /\ duo' = [d EXCEPT !.f[i].launch = r.launch,
                           !.f[i].flow = c.flow,
                           !.f[i].heard = (@ \/ d.f[i].bind = "refused")]
       /\ host' = c.host

\* The lines a child prints: the readiness line once it has the port, the
\* conflict line once it was refused.
DuoChunks(bind) ==
    CASE bind = "bound" -> { <<ServerStarted, "\n">>, <<OtherText, "\n">> }
      [] bind = "refused" -> { <<AddressInUse, "\n">>,
                               <<ErrorMarker, " ", AddressInUse, "\n">> }
      [] OTHER -> { <<OtherText, "\n">> }

DuoStdoutData(i) ==
    /\ host.alive
    /\ duo.f[i].child.ok /\ ~duo.f[i].child.exited
    /\ \E output \in DuoChunks(duo.f[i].bind) :
         DuoDispatch(i, OnStdoutData(duo.f[i].launch, host, duo.f[i].child.pid, output),
                     duo)
    /\ UNCHANGED <<procs, single>>

\* A refused child reports the conflict on its standard error.
DuoStderrData(i) ==
    /\ host.alive
    /\ duo.f[i].child.ok /\ ~duo.f[i].child.exited
    /\ duo.f[i].bind = "refused"
    /\ DuoDispatch(i, OnStderrData(duo.f[i].launch, host, <<AddressInUse, "\n">>), duo)
    /\ UNCHANGED <<procs, single>>

\* The spawn of flow i failed.
DuoChildError(i) ==
    /\ host.alive
    /\ duo.f[i].child.spawned /\ ~duo.f[i].child.ok /\ ~duo.f[i].child.errored
    /\ DuoDispatch(i, OnError(duo.f[i].launch, host, SpawnError),
                   [duo EXCEPT !.f[i].child.errored = TRUE])
    /\ UNCHANGED <<procs, single>>

\* The child of flow i ends, a refused one with code 1; the port it held
\* is free again.
DuoChildExit(i) ==
    /\ host.alive
    /\ duo.f[i].child.ok /\ ~duo.f[i].child.exited
    /\ \E code \in ExitCodes :
         /\ duo.f[i].bind = "refused" => code = 1
         /\ DuoDispatch(i, OnExit(duo.f[i].launch, host, code),
                        [duo EXCEPT !.f[i].child.exited = TRUE,
                                    !.port = IF @ = duo.f[i].child.pid THEN 0 ELSE @])
    /\ procs' = [procs EXCEPT ![duo.f[i].child.pid] = "none"]
    /\ UNCHANGED single

DuoNext ==
    \E i \in Flows :
        \/ DuoStartPocketbase(i)
        \/ DuoBind(i)
        \/ DuoStdoutData(i)
        \/ DuoStderrData(i)
        \/ DuoChildError(i)
        \/ DuoChildExit(i)

DuoSpec == DuoInit /\ [][DuoNext]_vars

(***************************************************************************)
(* Direct calls of executeCommand.                                         *)
(***************************************************************************)
\* options.exitOnError as the caller gave it, and what spawnSync may give.
ExitOnErrorOptions == {"true", "false", "undefined"}

CommandResults == {Ran(<<>>), Ran(<<"output">>), Failed(1), Failed(2), NotRun}

\* executeCommand(command, options)
CallExecuteCommand ==
    /\ host.alive
    /\ \E option \in ExitOnErrorOptions, res \in CommandResults :
         LET x == ExecuteCommand(res, option)
             r == IF x.kind = "return" THEN Returned(TRUE, <<"command">>)
                  ELSE Aborted(x, <<"command">>)
         IN /\ call' = [NoCall EXCEPT !.fn = "exec", !.option = option,
                                      !.res = res, !.r = r]
            /\ host' = IF r.exits THEN ProcessExit(host, 1) ELSE host
    /\ UNCHANGED <<platform, modules, duo, procs, flow, launch, child, lastEvent, tick, firstSettle,
                   sigterm, calls>>

ExecNext ==
    \/ CallExecuteCommand

\* Any sequence of calls of executeCommand.
ExecSpec == Init /\ [][ExecNext]_vars

(***************************************************************************)
(* The module commands: upgradeModule for an installed module, and         *)
(* installModuleHandler for a list of names, one action per name.          *)
(***************************************************************************)
\* What the module commands leave alone.
launching == <<platform, procs, flow, launch, child, lastEvent, tick, firstSettle,
               call, sigterm, calls, duo>>

\* Some modules are installed in an older version, and an earlier run may
\* have left a backup behind.
ModuleInit ==
    /\ platform = "posix"
    /\ procs = [p \in Pids |-> "none"]
    /\ host = [alive |-> TRUE, code |-> 0]
    /\ flow = [mode |-> "none", pc |-> "idle", pbRunning |-> FALSE, ret |-> NoRet]
    /\ launch = [state |-> "none", value |-> NoValue]
    /\ child = [spawned |-> FALSE, ok |-> FALSE, pid |-> 0,
                exited |-> FALSE, errored |-> FALSE]
    /\ lastEvent = NoEvent
    /\ tick = FALSE
    /\ firstSettle = NoEvent
    /\ call = NoCall
    /\ sigterm = {}
    /\ calls = 0
    /\ duo = NoDuo
    /\ \E dirs \in [FullNames -> {"none", "old"}],
          backups \in [FullNames -> {"none", "stale"}] :
         /\ dirs[NoSeparator] = "none"
         /\ backups[NoSeparator] = "none"
         /\ modules = [NoModules EXCEPT !.dirs = dirs, !.backups = backups]

\* upgradeModule(name, version) for an installed module
UpgradeModule ==
    /\ host.alive
    /\ modules.inst.pc # "loop"
    /\ \E name \in FullNames, fault \in UpgradeFaults :
         /\ modules.dirs[name] # "none"
         /\ LET u == UpgradeModuleBody(modules.dirs[name], modules.backups[name], fault)
            IN /\ modules' = [modules EXCEPT
                                !.dirs[name] = u.dir,
                                !.backups[name] = u.backup,
                                !.up = [name |-> name, fault |-> fault,
                                        pre |-> modules.dirs[name],
                                        outcome |-> u.outcome]]
               /\ host' = IF u.outcome = "exit" THEN ProcessExit(host, 1) ELSE host
    /\ UNCHANGED launching

\* The lists of names a call may be given.
NameLists == UNION { [1..n -> FullNames] : n \in 0..MaxNames }

\* The code after the loop: `if (installed.length === 0) return`, then the
\* registries are generated.  It runs once the last name is done.
AfterLoop(inst) ==
    IF inst.pc = "loop" /\ inst.i > Len(inst.names)
    THEN [inst EXCEPT !.pc = "done", !.regen = (Len(inst.installed) # 0)]
    ELSE inst

\* installModuleHandler(moduleNames), up to the first await
InstallModuleHandler ==
    /\ host.alive
    /\ modules.inst.pc # "loop"
    /\ \E names \in NameLists :
         modules' = [modules EXCEPT
                       !.inst = AfterLoop([NoInst EXCEPT !.pc = "loop", !.names = names])]
    /\ UNCHANGED <<host, launching>>

\* One pass of the loop, for the name at position i: what it did is logged
\* as [name, existed, inRegistry, step].
InstallStep ==
    /\ host.alive
    /\ modules.inst.pc = "loop"
    /\ modules.inst.i <= Len(modules.inst.names)
    /\ \E inRegistry \in BOOLEAN, fault \in InstallFaults :
         LET inst == modules.inst
             name == inst.names[inst.i]
             existed == modules.dirs[name] # "none"
             ip == InstallPackage(modules.dirs[name], fault)
             step == IF ~IsValidFullName(name) THEN "invalid"
                     ELSE IF existed THEN "exists"
                     ELSE IF ~inRegistry THEN "unknown"
                     ELSE IF ip.kind = "return" THEN "installed"
                     ELSE "failed"
             entry == [name |-> name, existed |-> existed,
                       inRegistry |-> inRegistry, step |-> step]
             logged == [inst EXCEPT !.log = Append(@, entry)]
         IN /\ (step \in {"invalid", "exists"}) => (inRegistry /\ fault = "none")
            /\ (step = "unknown") => fault = "none"
            /\ modules' =
                 [modules EXCEPT
                    !.dirs[name] = IF step \in {"installed", "failed"} THEN ip.dir ELSE @,
                    !.inst = CASE step = "installed" ->
                                    AfterLoop([logged EXCEPT
                                                 !.installed = Append(@, name),
                                                 !.i = @ + 1])
                               [] step = "failed" ->
                                    IF ip.kind = "throw"
                                    THEN [logged EXCEPT !.pc = "threw"]
                                    ELSE logged
                               [] OTHER -> AfterLoop([logged EXCEPT !.i = @ + 1])]
            /\ host' = IF step = "failed" /\ ip.kind = "exit"
                       THEN ProcessExit(host, 1) ELSE host
    /\ UNCHANGED launching

ModuleNext ==
    \/ UpgradeModule
    \/ InstallModuleHandler
    \/ InstallStep

ModuleSpec == ModuleInit /\ [][ModuleNext]_vars

(***************************************************************************)
(* The life of one server: startPocketbase, the child's readiness line and *)
(* its end, the cleanup closure, and the probes called in between.         *)
(***************************************************************************)
\* The lines a server that starts properly prints.
LifeChunks == { <<ServerStarted, "\n">>, <<OtherText, "\n">> }

LifeStdoutData ==
    /\ host.alive /\ child.ok
    /\ \E output \in LifeChunks :
         Dispatch([kind |-> "stdout", data |-> output, code |-> 0],
                  OnStdoutData(launch, host, child.pid, output))
    /\ UNCHANGED <<platform, modules, duo, procs, child, calling>>

LifeNext ==
    \/ StartPocketbase
    \/ LifeStdoutData
    \/ ChildExit
    \/ Cleanup
    \/ CallIsValid
    \/ CallCheckRunning
    \/ OsTerminate

LifeSpec == Init /\ [][LifeNext]_vars

\* The life of one server without the probes in between.
KillNext ==
    \/ StartPocketbase
    \/ LifeStdoutData
    \/ ChildExit
    \/ Cleanup
    \/ OsTerminate

\* The life of one server while other processes start.
ReuseNext ==
    \/ StartPocketbase
    \/ LifeStdoutData
    \/ ChildExit
    \/ Cleanup
    \/ OsTerminate
    \/ OsStartsProcess

ReuseSpec == Init /\ [][ReuseNext]_vars

\* The OS ends, sooner or later, every process a termination request reached.
KillFairSpec == Init /\ [][KillNext]_vars /\ WF_vars(OsTerminate)

(***************************************************************************)
(* Properties.                                                             *)
(***************************************************************************)
Settled == launch.state \in {"resolved", "rejected"}

\* The step dispatches a child event.
EventStep == tick' # tick

\* msg is text without its leading and trailing whitespace.
IsTrimOf(msg, text) ==
    /\ msg = <<>> \/ (msg[1] \notin Whitespace /\ msg[Len(msg)] \notin Whitespace)
    /\ \E i \in 1..(Len(text) - Len(msg) + 1) :
         /\ SubSeq(text, i, i + Len(msg) - 1) = msg
         /\ \A k \in 1..Len(text) :
              (k < i \/ k > i + Len(msg) - 1) => text[k] \in Whitespace

RejectedWithText(p, text) ==
    /\ p.state = "rejected"
    /\ p.value.kind = "Error"
    /\ IsTrimOf(p.value.message, text)

\* C1: the launch result is settled at most once: once it holds a pid or an
\* error, no step changes its state or its value.
C1_SettledAtMostOnce == [][Settled => launch' = launch]_vars

\* A resolved launch on which a rejecting handler (stderr, nonzero exit) ran
\* later.
C1_Witness ==
    /\ launch.state = "resolved"
    /\ firstSettle.kind = "stdout"
    /\ \/ lastEvent.kind = "stderr"
       \/ lastEvent.kind = "exit" /\ lastEvent.code # 0

\* C2: once the launch has settled, every later event of that launch is
\* inert: it changes neither the result, nor the host, nor the caller.
C2_LaterEventsInert ==
    [][(Settled /\ EventStep) => (launch' = launch /\ host' = host /\ flow' = flow)]_vars

\* C3: a stdout chunk that arrives on a pending launch takes effect by the
\* first rule it matches, and by that rule only: 'Error:' at its start
\* rejects; else 'bind: address already in use' ends the host with status 1
\* and leaves the launch unsettled; else 'Server started' resolves with the
\* child's pid.
C3_FirstMatchingRuleOnly ==
    [][(EventStep /\ lastEvent'.kind = "stdout" /\ launch.state = "pending") =>
         LET output == lastEvent'.data
         IN IF StartsWith(output, ErrorMarker)
            THEN RejectedWithText(launch', output)
            ELSE IF Includes(output, AddressInUse)
            THEN ~host'.alive /\ host'.code = 1 /\ launch'.state = "pending"
            ELSE IF Includes(output, ServerStarted)
            THEN launch' = [state |-> "resolved", value |-> PidValue(child.pid)]
            ELSE launch' = launch /\ host' = host]_vars

\* C4: whenever the child has emitted a stdout chunk containing
\* 'bind: address already in use', the host has ended with status 1 and the
\* launch is not resolved.
C4_BindEndsHostUnresolved ==
    (lastEvent.kind = "stdout" /\ Includes(lastEvent.data, AddressInUse)) =>
        (~host.alive /\ host.code = 1 /\ launch.state # "resolved")

\* C5: when the first terminal event is a stdout chunk that begins with
\* 'Error:', the launch is rejected with an Error whose message is that
\* chunk trimmed, and stays so.
C5_ErrorLineRejects ==
    (firstSettle.kind = "stdout" /\ StartsWith(firstSettle.data, ErrorMarker)) =>
        /\ RejectedWithText(launch, firstSettle.data)
        /\ (Tail(Tail(firstSettle.data)) = <<OtherText, "\n">> =>
              launch.value.message = <<ErrorMarker, " ", OtherText>>)

\* 'Error: cannot open database' came first and 'Server started' later.
C5_Witness ==
    /\ firstSettle = [kind |-> "stdout",
                      data |-> <<ErrorMarker, " ", OtherText, "\n">>, code |-> 0]
    /\ lastEvent.kind = "stdout"
    /\ Includes(lastEvent.data, ServerStarted)
    /\ ~StartsWith(lastEvent.data, ErrorMarker)
    /\ launch.state = "rejected"

\* C6: stderr data on a pending launch rejects it, at that event, with an
\* Error carrying the trimmed text, whatever the text; stderr data never
\* resolves a launch.
C6_StderrRejects ==
    [][(EventStep /\ lastEvent'.kind = "stderr") =>
         /\ launch.state = "pending" => RejectedWithText(launch', lastEvent'.data)
         /\ launch.state # "resolved" => launch'.state # "resolved"]_vars

\* The launch was rejected by stderr text that holds 'Server started'.
C6_Witness ==
    /\ firstSettle.kind = "stderr"
    /\ Includes(firstSettle.data, ServerStarted)
    /\ launch.state = "rejected"
    /\ launch.value.message = <<ServerStarted>>

\* C7: an exit with a code other than 0 on a pending launch rejects it with
\* an Error whose message carries that code; an 'error' event on a pending
\* launch rejects it with the error of the event itself.
C7_ExitAndErrorReject ==
    [][(EventStep /\ launch.state = "pending") =>
         /\ (lastEvent'.kind = "exit" /\ lastEvent'.code # 0) =>
              /\ launch'.state = "rejected"
              /\ launch'.value.kind = "Error"
              /\ launch'.value.message # <<>>
              /\ ParseInt(launch'.value.message[Len(launch'.value.message)])
                   = (IF lastEvent'.code > 0 THEN lastEvent'.code ELSE -1)
         /\ lastEvent'.kind = "error" =>
              launch' = [state |-> "rejected", value |-> SpawnError]]_vars

\* The child left with code 2 before anything else settled the launch.
C7_Witness ==
    /\ firstSettle.kind = "exit"
    /\ firstSettle.code = 2
    /\ launch.state = "rejected"
    /\ launch.value.message[2] = "2"

\* The terminal signals of a launch, and the outcome each stands for.
TerminalSignal(ev) ==
    \/ ev.kind = "stdout" /\ StartsWith(ev.data, ErrorMarker)
    \/ ev.kind = "stdout" /\ Includes(ev.data, ServerStarted)
    \/ ev.kind = "stderr"
    \/ ev.kind = "error"
    \/ ev.kind = "exit" /\ ev.code # 0

IsOutcomeOf(p, ev) ==
    CASE ev.kind = "stdout" /\ StartsWith(ev.data, ErrorMarker) ->
            RejectedWithText(p, ev.data)
      [] ev.kind = "stdout" /\ ~StartsWith(ev.data, ErrorMarker) ->
            p = [state |-> "resolved", value |-> PidValue(child.pid)]
      [] ev.kind = "stderr" -> RejectedWithText(p, ev.data)
      [] ev.kind = "error" -> p = [state |-> "rejected", value |-> SpawnError]
      [] ev.kind = "exit" ->
            /\ p.state = "rejected"
            /\ p.value.message[Len(p.value.message)] = CodeText(ev.code)
      [] OTHER -> FALSE

\* C8: the result of a launch is the outcome of the first terminal signal
\* in arrival order, whatever its channel and whatever arrives later; no
\* terminal signal leaves the launch pending.
C8_FirstTerminalSignalGoverns ==
    /\ firstSettle # NoEvent => (TerminalSignal(firstSettle) /\ IsOutcomeOf(launch, firstSettle))
    /\ firstSettle = NoEvent => ~Settled
    /\ TerminalSignal(lastEvent) => firstSettle # NoEvent

\* 'Server started' came first, then a nonzero exit: resolved with the pid.
C8_Witness ==
    /\ firstSettle.kind = "stdout"
    /\ Includes(firstSettle.data, ServerStarted)
    /\ lastEvent.kind = "exit"
    /\ lastEvent.code = 1
    /\ launch = [state |-> "resolved", value |-> PidValue(child.pid)]
    /\ child.pid \in Pids

\* A rejecting signal came first, then 'Server started': still rejected.
C8_WitnessRejectedFirst ==
    /\ firstSettle.kind = "stderr"
    /\ lastEvent.kind = "stdout"
    /\ Includes(lastEvent.data, ServerStarted)
    /\ ~StartsWith(lastEvent.data, ErrorMarker)
    /\ launch.state = "rejected"

\* C9: when the probe of startPocketbase reports a running instance, the
\* call spawns nothing, changes no process and returns null; it spawns a
\* child only when the probe reports none.
C9_RunningInstanceIsNoOp ==
    [][(flow.pc = "idle" /\ flow'.mode = "startPocketbase") =>
         IF flow'.pbRunning
         THEN /\ flow'.pc = "returned"
              /\ flow'.ret = [kind |-> "null", pid |-> 0]
              /\ child' = child /\ ~child'.spawned
              /\ procs' = procs
              /\ launch' = launch
              /\ host' = host
         ELSE child'.spawned /\ flow'.pc = "awaiting"]_vars

\* startPocketbase returned null while a PocketBase was running.
C9_Witness ==
    /\ flow.mode = "startPocketbase"
    /\ flow.pbRunning
    /\ flow.pc = "returned"
    /\ flow.ret.kind = "null"
    /\ \E p \in Pids : procs[p] = "pb"
    /\ ~child.spawned

\* C10: in startPocketbase a rejected launch ends the host with status 1,
\* and the call has neither returned nor thrown; a port conflict line on
\* stdout ends the host with status 1 as well.
C10_LaunchFailureIsFatal ==
    flow.mode = "startPocketbase" =>
        /\ launch.state = "rejected" =>
              (~host.alive /\ host.code = 1 /\ flow.pc \notin {"returned", "threw"})
        /\ flow.pc # "threw"
        /\ (lastEvent.kind = "stdout" /\ Includes(lastEvent.data, AddressInUse)
              /\ ~StartsWith(lastEvent.data, ErrorMarker)) =>
              (~host.alive /\ host.code = 1)

\* The child of startPocketbase left with a nonzero code before it was ready.
C10_Witness ==
    /\ flow.mode = "startPocketbase"
    /\ launch.state = "rejected"
    /\ firstSettle.kind = "exit"
    /\ ~host.alive
    /\ host.code = 1

(***************************************************************************)
(* Properties of the probes, the terminator and the cleanup closure.       *)
(***************************************************************************)
\* The child startPocketbase launched is in the process table.
ChildRunning == child.ok /\ ~child.exited

\* What the process listing of a probe printed: spawnSync's result, and the
\* set of pids parsed from it.
ListingResult(a) ==
    IF platform = "win32" THEN RunTasklistByImage(procs, "pocketbase", a)
    ELSE RunPgrep(procs, "pocketbase serve", a)

ListedPids(a) ==
    LET pids == ParsedPids(ListingResult(a).stdout, platform = "win32")
    IN {pids[i] : i \in 1..Len(pids)}

\* The listing gave the probe nothing to go on.
ListingUseless(a) ==
    \/ ListingResult(a).error
    \/ ListingResult(a).status # 0
    \/ ListingResult(a).stdout = <<>>
    \/ ListedPids(a) = {}

\* The probe said `running`: it returned true, or it ended the host because
\* it was asked to.
SaidRunning(r) == r.ret \/ r.exits

\* C11: the cleanup closure calls killExistingProcess with the pid the
\* launch resolved with, which is the pid of the child, and neither throws
\* nor ends the host, however often it is called and whether the child is
\* still there or not; its request reaches no other process.
C11_CleanupKillsLaunchedPidQuietly ==
    call.fn = "cleanup" =>
        /\ launch.state = "resolved"
        /\ call.pid = launch.value.pid
        /\ call.pid = child.pid
        /\ ~call.r.threw
        /\ ~call.r.exits
        /\ call.r.ret = 0
        /\ call.r.reached \subseteq {child.pid}

\* The closure was called a second time, after the child had gone.
C11_Witness ==
    /\ call.fn = "cleanup"
    /\ calls = 2
    /\ child.exited
    /\ procs[call.pid] = "none"
    /\ call.r.reached = {}

\* C12: when the listing fails, prints nothing or prints no pid, the
\* probe returns false; it never throws, and then it does not end the host
\* either, whatever exitOnError is.
C12_ProbeFailsOpen ==
    call.fn = "checkRunning" =>
        /\ ~call.r.threw
        /\ ListingUseless(call.os) => (call.r.ret = FALSE /\ ~call.r.exits)

\* The listing could not be run, or printed text without a pid, and the
\* probe was asked to exit on a find.
C12_Witness ==
    /\ call.fn = "checkRunning"
    /\ call.exitOnError
    /\ call.os.listing \in {"fails", "garbage"}
    /\ \E p \in Pids : procs[p] = "pb"
    /\ call.r.ret = FALSE
    /\ ~call.r.exits

\* C13: on POSIX the probe says `running` exactly when a pid of the pgrep
\* listing passes isValidPocketbaseProcess; on Windows exactly when the
\* tasklist listing has a pid, and it runs no command but the listing.
C13_RunningIffVerifiedOrListed ==
    call.fn = "checkRunning" =>
        IF platform = "win32"
        THEN /\ SaidRunning(call.r) <=> ListedPids(call.os) # {}
             /\ Len(call.r.cmds) = 1
        ELSE SaidRunning(call.r) <=>
                \E p \in ListedPids(call.os) :
                    IsValidPocketbaseProcess(procs, platform, p, call.os).ret

\* On POSIX the listing had two pids, one of a PocketBase and one of
\* another process, and the probe returned true.
C13_Witness ==
    /\ call.fn = "checkRunning"
    /\ platform = "posix"
    /\ call.r.ret = TRUE
    /\ Cardinality(ListedPids(call.os)) = 2
    /\ \E p \in ListedPids(call.os) : procs[p] = "lookalike"

\* C14 as stated: a call of the probe never ends the host and asks for no
\* process to be ended, whatever exitOnError is.
C14_ProbeNeverEndsHost ==
    call.fn = "checkRunning" => (~call.r.exits /\ call.r.reached = {})

\* C14: a call of the probe asks for no process to be ended and runs only
\* commands that list; it ends the host, with status 1, exactly when
\* exitOnError is true and it found an instance.
C14_ProbeOnlyReadsAndExitsOnFind ==
    call.fn = "checkRunning" =>
        /\ call.r.reached = {}
        /\ \A i \in 1..Len(call.r.cmds) : call.r.cmds[i] \in {"pgrep", "ps", "tasklist"}
        /\ call.r.exits <=>
              /\ call.exitOnError
              /\ IF platform = "win32" THEN ListedPids(call.os) # {}
                 ELSE \E p \in ListedPids(call.os) :
                         IsValidPocketbaseProcess(procs, platform, p, call.os).ret
        /\ call.r.exits => (~host.alive /\ host.code = 1)
        /\ ~call.exitOnError => host.alive

\* A probe with exitOnError false found an instance and returned true.
C14_Witness ==
    /\ call.fn = "checkRunning"
    /\ ~call.exitOnError
    /\ call.r.ret = TRUE
    /\ host.alive

\* C15: isValidPocketbaseProcess never throws, never ends the host and asks
\* for no process to be ended; when the pid cannot be signalled or the
\* query by pid cannot be run or finds no process, it returns false.
C15_VerifierNeverThrows ==
    call.fn = "isValid" =>
        /\ ~call.r.threw
        /\ ~call.r.exits
        /\ host.alive
        /\ call.r.reached = {}
        /\ (\/ procs[call.pid] = "none"
            \/ ~call.os.signalOk
            \/ ~call.os.psOk) => call.r.ret = FALSE

\* The verifier was called for a PocketBase and the query by pid failed.
C15_Witness ==
    /\ call.fn = "isValid"
    /\ procs[call.pid] = "pb"
    /\ call.os.signalOk
    /\ ~call.os.psOk
    /\ call.r.cmds # <<>>
    /\ call.r.ret = FALSE

\* C16: isValidPocketbaseProcess returns true only for a pid the host can
\* signal and whose process is a PocketBase, named "PocketBase" or
\* "PocketBase.exe" by the OS; when the pid cannot be signalled it returns
\* false and has run no command; for another live process it returns false.
C16_VerifierTrueOnlyForLivePocketbase ==
    call.fn = "isValid" =>
        /\ call.r.ret = TRUE =>
              /\ procs[call.pid] = "pb"
              /\ call.os.signalOk \/ (ChildRunning /\ call.pid = child.pid)
              /\ call.r.cmds \in {<<"ps">>, <<"tasklist">>}
        /\ (procs[call.pid] = "none" \/ ~(call.os.signalOk \/ (ChildRunning /\ call.pid = child.pid))) =>
              (call.r.ret = FALSE /\ call.r.cmds = <<>>)
        /\ procs[call.pid] = "lookalike" => call.r.ret = FALSE

\* The verifier returned true for a PocketBase and, in the same process
\* table, there is a process it returns false for.
C16_Witness ==
    /\ call.fn = "isValid"
    /\ call.r.ret = TRUE
    /\ procs[call.pid] = "pb"
    /\ \E p \in Pids : procs[p] = "lookalike"

CountedPids ==
    UNION { IF platform = "win32" THEN ListedPids(a)
            ELSE {p \in ListedPids(a) :
                    IsValidPocketbaseProcess(procs, platform, p, a).ret} :
            a \in ProbeAnswers }

\* C19: once the cleanup closure has called killExistingProcess for the
\* launched pid and the OS did take the request (taskkill could be run),
\* the pid leaves the process table for good and, from then on, no probe
\* counts it and the verifier returns false for it.
C19_KilledPidLeavesTable ==
    \A p \in Pids :
        (call.fn = "cleanup" /\ call.pid = p /\ call.os.killOk)
            ~> [](/\ procs[p] = "none"
                  /\ p \notin CountedPids
                  /\ \A a \in VerifierAnswers :
                        ~IsValidPocketbaseProcess(procs, platform, p, a).ret)

\* The closure was called while the child ran, and the request reached it.
C19_Witness ==
    /\ call.fn = "cleanup"
    /\ call.os.killOk
    /\ ChildRunning
    /\ procs[call.pid] = "pb"
    /\ call.pid \in CountedPids
    /\ call.pid \in sigterm

C21_SettledOnlyByChildEvent ==
    [][/\ (~Settled /\ Settled') => EventStep
       /\ launch'.state = "pending" => flow'.pc = "awaiting"]_vars

\* The child printed a line that is neither a readiness nor an error line;
\* it runs, and the caller is still suspended.
C21_Witness ==
    /\ launch.state = "pending"
    /\ flow.pc = "awaiting"
    /\ host.alive
    /\ ChildRunning
    /\ lastEvent.kind = "stdout"
    /\ ~Includes(lastEvent.data, ServerStarted)

\* C22 as stated: when the command fails, executeCommand throws to its
\* caller if exitOnError is false, and in every other case, exitOnError not
\* given included, it ends the host with status 1 and does not throw.
C22_RethrowsOnlyIfFalse ==
    (call.fn = "exec" /\ (call.res.error \/ call.res.status # 0)) =>
        IF call.option = "false"
        THEN call.r.threw /\ ~call.r.exits /\ host.alive
        ELSE call.r.exits /\ ~call.r.threw /\ ~host.alive /\ host.code = 1

\* C23 as stated: whenever the install step of upgradeModule fails after
\* the backup was taken, the module directory has its content from before
\* the call and upgradeModule returned false; when nothing fails the
\* backup is gone, the directory has the latest version and it returned
\* true.
C23_FailedUpgradeRestores ==
    LET u == modules.up
    IN u.pre = "old" =>
         /\ u.fault \in {"tarball", "curl", "tar", "extract", "bun"} =>
               (modules.dirs[u.name] = u.pre /\ u.outcome = "false")
         /\ u.fault \in {"none", "bun1"} =>
               /\ u.outcome = "true"
               /\ modules.dirs[u.name] = "new"
               /\ modules.backups[u.name] = "none"

\* The names of the model that the pattern of installModuleHandler takes.
WellFormedNames == {Calendar, Notes}

\* The names a log says were installed, in the order of the log.
RECURSIVE InstalledOf(_)
InstalledOf(log) ==
    IF log = <<>> THEN <<>>
    ELSE (IF Head(log).step = "installed" THEN <<Head(log).name>> ELSE <<>>)
            \o InstalledOf(Tail(log))

\* C24: installModuleHandler takes the names in the order given; it
\* installs a name only if the name is well formed, no directory was at its
\* target and the registry said the package exists; a name that fails one
\* of these checks is not installed and the loop goes on to the next name
\* (only a failing installPackage ends the loop early); once the loop is
\* over the registries have been generated if and only if a module was
\* installed, and they are never generated with nothing installed.
C24_InstallsOnlyCheckedNames ==
    LET inst == modules.inst
        log == inst.log
    IN /\ Len(log) <= Len(inst.names)
       /\ \A k \in 1..Len(log) :
            /\ log[k].name = inst.names[k]
            /\ log[k].step = "installed" =>
                  /\ log[k].name \in WellFormedNames
                  /\ ~log[k].existed
                  /\ log[k].inRegistry
            /\ (\/ log[k].name \notin WellFormedNames
                \/ log[k].existed
                \/ ~log[k].inRegistry) => log[k].step \in {"invalid", "exists", "unknown"}
            /\ log[k].step = "failed" => k = Len(log)
       /\ inst.installed = InstalledOf(log)
       /\ inst.pc = "loop" =>
            Len(log) = inst.i - 1 + (IF host.alive THEN 0 ELSE 1)
       /\ inst.pc = "done" =>
            /\ Len(log) = Len(inst.names)
            /\ inst.regen <=> (inst.installed # <<>>)
       /\ inst.regen => (inst.pc = "done" /\ inst.installed # <<>>)

\* The first name was skipped, the second was installed, and the
\* registries were generated.
C24_Witness ==
    /\ modules.inst.pc = "done"
    /\ Len(modules.inst.log) = 2
    /\ modules.inst.log[1].step \in {"invalid", "exists", "unknown"}
    /\ modules.inst.log[2].step = "installed"
    /\ modules.inst.regen
    /\ modules.dirs[modules.inst.names[2]] = "new"

\* C25 as stated: the termination request of the cleanup closure reaches
\* no process but the child the flow launched, while that child runs; when
\* the child has gone and its pid belongs to another process, the request
\* reaches nothing.
C25_CleanupSparesOthers ==
    call.fn = "cleanup" =>
        \A p \in call.r.reached : p = child.pid /\ ChildRunning

\* C26 as stated: once the child has exited, whatever its exit code, the
\* launch is settled sooner or later.
C26_ExitSettlesLaunch == (child.ok /\ child.exited) ~> Settled

\* The flows that hold a cleanup closure, and the children that have the
\* port and run: the only ones that are ready or can become so.
WithCleanup == {i \in Flows : duo.f[i].flow.ret.kind = "cleanup"}

Serving == {i \in Flows : duo.f[i].bind = "bound" /\ ~duo.f[i].child.exited}

\* A flow whose child lost the port never returns and never throws, and
\* once the host has handled an event of that child it has exited with
\* status 1.
LoserEndsHost ==
    \A i \in Flows :
        duo.f[i].bind = "refused" =>
            /\ duo.f[i].flow.pc \notin {"returned", "threw"}
            /\ duo.f[i].launch.state # "resolved"
            /\ duo.f[i].heard => (~host.alive /\ host.code = 1)

\* C27 as stated: when the two flows run at the same time, at most one of
\* them gets a cleanup closure; at most one child has the port, and the
\* flow whose child lost the port ends the host with status 1.
C27_OneFlowGetsCleanup ==
    /\ duo.overlap => Cardinality(WithCleanup) <= 1
    /\ Cardinality(Serving) <= 1
    /\ LoserEndsHost

\* C27: at most one child has the port; the flow whose child lost the
\* port ends the host with status 1; and both flows get a cleanup closure
\* only if the server that was ready first has exited before the other
\* became ready, so that at most one flow has a cleanup closure for a
\* server that runs.
C27_OneFlowPerRunningServer ==
    /\ Cardinality(Serving) <= 1
    /\ LoserEndsHost
    /\ Cardinality({i \in WithCleanup : ~duo.f[i].child.exited}) <= 1
    /\ \A i \in WithCleanup :
         /\ duo.f[i].bind = "bound"
         /\ duo.f[i].flow.ret.pid = duo.f[i].child.pid

\* Both flows spawned a child; one has the port and its flow the cleanup
\* closure, the other was refused and its report ended the host.
C27_Witness ==
    \E i, j \in Flows :
        /\ i # j
        /\ duo.f[i].flow.ret.kind = "cleanup"
        /\ i \in Serving
        /\ duo.f[j].bind = "refused"
        /\ duo.f[j].heard
        /\ ~host.alive
        /\ host.code = 1


=============================================================================
